---- MODULE Spec2Model ----
(***************************************************************************)
(* Model of the momentum tracker: the stock/option ledgers kept by         *)
(* tracker.TradeTracker (process_signals, resolve_prices), driven by       *)
(* run_report.build_report, and the trading-day resolver                   *)
(* prices.PriceService._ensure_date_data.                                  *)
(*                                                                         *)
(* Dates are day numbers; day d is a weekend day iff d % 7 is 5 or 6       *)
(* (date.weekday() >= 5).  NaN (an empty CSV cell) is Null.                *)
(***************************************************************************)
EXTENDS Integers, Sequences, FiniteSets, Bags, TLC

\* ------------------------------------------------------------------------
\* Bounds of the model
\* ------------------------------------------------------------------------
\* tracker: first and last day, runs per day, rows of each ledger
FirstDay == 6
MaxDay == 8
MaxRuns == 1
MaxPos == 2
MaxLegs == 2
\* resolver: targets of the calls, largest max_backtrack
FirstTarget == 12
LastTarget == 14
MaxBack == 1
\* ranking: last run date of the snapshot history
MaxRankDay == 3
\* ranking: largest close of the price frames
MaxClose == 2
\* option picker: most candidates in a response
MaxCands == 3
\* option resolution: last day of the contract bars, most runs
MaxLegDay == 10
MaxLegRuns == 2
\* stock resolution of one Position: its signal day, the last day
SignalDay == 3
MaxFillDay == 10
\* reference price: most rows of a ticker in prices_df
MaxRefRows == 3

\* ------------------------------------------------------------------------
\* Program constants
\* ------------------------------------------------------------------------
Null == -1
TopN == 5
ScanDays == 5
Tickers == {"A", "B", "C"}
TickerSeq == <<"A", "B", "C", "D", "E", "F", "G">>
COHORTS == <<"megacap", "sp500", "sp400">>
\* universe: megacap is derived from the S&P 500 holdings, sp400 is disjoint
CohortTickers(cohort) ==
    IF cohort = "megacap" THEN {"A", "B"}
    ELSE IF cohort = "sp500" THEN {"A", "B"}
    ELSE {"C"}
Strategies == <<"100d_Call", "500d_LEAP", "Short_Put">>

VARIABLES
    today,      \* date.today()
    pc,         \* build_report: "idle", "rank" (line 57-58) or "signal" (line 63)
    ci,         \* index in COHORTS of the cohort being processed, 0 when idle
    runDate,    \* run_date of the run in progress, Null when idle
    runs,       \* number of runs started on the day
    stock,      \* data/trade_log.csv  : sequence of Position rows
    opts,       \* data/option_log.csv : sequence of OptionLeg rows
    bars,       \* days whose bars (tickers and benchmark) are in daily_prices
    current,    \* tickers of top_10.head(5) for the cohort being processed
    db,         \* daily_prices, per date: rows of other tickers, the VOO row
    sem,        \* PriceService._semaphore of each instance: TRUE when held
    call,       \* the _ensure_date_data call of each caller
    snap,       \* tables top10_<cohort>: a bag of RankSnapshot rows per cohort
    last,       \* the last extract_top_picks call: cohort, run_date, ranked_df
    closes,     \* prices_df: the close of each ticker at each target date
    ranked_df,  \* the frame calculate_ranks returned
    query,      \* find_best_contract: strategy, stock price, day, response
    best_c,     \* what find_best_contract returned
    legSt,      \* option resolution: the stock ledger (one Position)
    legOp,      \* option resolution: the option ledger (its leg)
    legBars,    \* the days on which the upstream has a bar of the contract
    legRuns,    \* resolve_prices runs so far
    fillSt,     \* stock resolution: the stock ledger (one Position)
    fillUp,     \* the days for which the upstream has bars
    fillBars,   \* the days whose bars are in the price store
    fillDay,    \* date.today()
    refRows,    \* the rows of a ticker in prices_df, in the order of the frame
    refPrice,   \* what get_reference_price returned
    bfIn,       \* process_signals of one cohort: ledgers, snapshot prices, top 5
    bfOut,      \* the ledgers process_signals saved
    dbCloses,   \* daily_prices at the target dates, per ticker
    top_10      \* the cohort's top-10 tickers and the Positions opened from it

trackerVars == <<today, pc, ci, runDate, runs, stock, opts, bars, current>>

ensureVars == <<db, sem, call>>

rankVars == <<snap, last>>

calcVars == <<closes, ranked_df>>

vars ==
    <<today, pc, ci, runDate, runs, stock, opts, bars, current, db, sem, call,
      snap, last, closes, ranked_df, query, best_c,
      legSt, legOp, legBars, legRuns, fillSt, fillUp, fillBars, fillDay,
      refRows, refPrice,
      bfIn, bfOut,
      dbCloses, top_10>>

cohortVars == <<dbCloses, top_10>>

bfVars == <<bfIn, bfOut>>

refVars == <<refRows, refPrice>>

fillVars == <<fillSt, fillUp, fillBars, fillDay>>

legVars == <<legSt, legOp, legBars, legRuns>>

pickVars == <<query, best_c>>

\* what the steps of the tracker, of the resolver and of the ranking leave alone
notTracker ==
    <<ensureVars, rankVars, calcVars, pickVars, legVars, fillVars, refVars, bfVars, cohortVars>>

notEnsure ==
    <<trackerVars, rankVars, calcVars, pickVars, legVars, fillVars, refVars, bfVars, cohortVars>>

notRank ==
    <<trackerVars, ensureVars, calcVars, pickVars, legVars, fillVars, refVars, bfVars, cohortVars>>

notCalc ==
    <<trackerVars, ensureVars, rankVars, pickVars, legVars, fillVars, refVars, bfVars, cohortVars>>

notPick ==
    <<trackerVars, ensureVars, rankVars, calcVars, legVars, fillVars, refVars, bfVars, cohortVars>>

notLeg ==
    <<trackerVars, ensureVars, rankVars, calcVars, pickVars, fillVars, refVars, bfVars, cohortVars>>

notFill ==
    <<trackerVars, ensureVars, rankVars, calcVars, pickVars, legVars, refVars, bfVars, cohortVars>>

notRef ==
    <<trackerVars, ensureVars, rankVars, calcVars, pickVars, legVars, fillVars, bfVars, cohortVars>>

notBf ==
    <<trackerVars, ensureVars, rankVars, calcVars, pickVars, legVars, fillVars, refVars, cohortVars>>

notCohort ==
    <<trackerVars, ensureVars, rankVars, calcVars, pickVars, legVars, fillVars, refVars, bfVars>>

\* ------------------------------------------------------------------------
\* Helpers
\* ------------------------------------------------------------------------
IsWeekend(d) == (d % 7) >= 5

Range(s) == {s[i] : i \in DOMAIN s}

RECURSIVE Flatten(_)
Flatten(ss) == IF ss = <<>> THEN <<>> ELSE Head(ss) \o Flatten(Tail(ss))

TickerNo(t) == CHOOSE i \in DOMAIN TickerSeq : TickerSeq[i] = t

\* Upstream data: the day's high / low of a ticker, the benchmark's high / low,
\* and an option contract's close.  Distinct arguments give distinct values.
High(t, d) == 1000 * TickerNo(t) + 10 * d + 5
Low(t, d) == 1000 * TickerNo(t) + 10 * d + 1
SpyHigh(d) == 10 * d + 5
SpyLow(d) == 10 * d + 1
OptClose(sym, d) == 100 * sym[3] + d

\* ------------------------------------------------------------------------
\* Ledger rows
\* ------------------------------------------------------------------------
TradeId(t, run_date) == <<t, run_date>>

NewPosition(t, cohort, run_date) ==
    [trade_id |-> TradeId(t, run_date), cohort |-> cohort, ticker |-> t,
     signal_date |-> run_date, buy_date |-> Null, buy_price |-> Null,
     spy_buy_price |-> Null, drop_date |-> Null, sell_date |-> Null,
     sell_price |-> Null, spy_sell_price |-> Null, status |-> "OPEN"]

NewLeg(tid, strat, sym) ==
    [trade_id |-> tid, strategy |-> strat, option_symbol |-> sym,
     entry_date |-> Null, entry_price |-> Null, exit_date |-> Null,
     exit_price |-> Null, status |-> "OPEN"]

\* The contract find_best_contract selects: it depends on the ticker, the
\* strategy and date.today() (the target expiration).
BestContract(t, strat, day) == <<t, strat, day>>

\* _pick_options_for_trade: one leg per strategy for which a contract is found.
PickOptions(t, tid, found, day) ==
    LET hit == SelectSeq(Strategies, LAMBDA s : s \in found)
    IN  [i \in 1..Len(hit) |-> NewLeg(tid, hit[i], BestContract(t, hit[i], day))]

\* ------------------------------------------------------------------------
\* process_signals
\* ------------------------------------------------------------------------
Min(a, b) == IF a < b THEN a ELSE b

\* mutant: the whole top-10 instead of its head(5)
CurrentTickersAll(t10) == {t10[i] : i \in DOMAIN t10}

CurrentTickers(t10) == {t10[i] : i \in 1..Min(TopN, Len(t10))}
\* below, cur is current_tickers

OpenIdx(st, cohort) ==
    SelectSeq([i \in 1..Len(st) |-> i],
              LAMBDA i : st[i].cohort = cohort /\ st[i].status = "OPEN")

OpenTickers(st, cohort) == {st[i].ticker : i \in Range(OpenIdx(st, cohort))}

\* mutant: every top-5 ticker is taken as a new buy
NewBuysAll(st, cohort, cur) == cur

NewBuys(st, cohort, cur) == cur \ OpenTickers(st, cohort)

NewBuySeq(st, cohort, cur) ==
    SelectSeq(TickerSeq, LAMBDA t : t \in NewBuys(st, cohort, cur))

\* mutant: only the first new buy gets a row
NewRowsFirstOnly(st, cohort, cur, run_date) ==
    LET nb == NewBuySeq(st, cohort, cur)
    IN  [i \in 1..Min(1, Len(nb)) |-> NewPosition(nb[i], cohort, run_date)]

NewRows(st, cohort, cur, run_date) ==
    LET nb == NewBuySeq(st, cohort, cur)
    IN  [i \in 1..Len(nb) |-> NewPosition(nb[i], cohort, run_date)]

\* 1. brand new signals: options are picked when the snapshot has a price
NewSignalOpts(st, cohort, cur, run_date, priced, found, day) ==
    LET nb == NewBuySeq(st, cohort, cur)
    IN  Flatten([i \in 1..Len(nb) |->
            IF nb[i] \in priced
            THEN PickOptions(nb[i], TradeId(nb[i], run_date), found[nb[i]], day)
            ELSE <<>>])

\* 2. backfill of open trades without any leg
NeedsBackfill(row, op, new_opts) ==
    /\ \A j \in DOMAIN op : op[j].trade_id # row.trade_id
    /\ \A j \in DOMAIN new_opts : new_opts[j].trade_id # row.trade_id

\* mutant: no fall-back to the recorded buy_price
HasRefPriceSnapshotOnly(row, priced) == row.ticker \in priced

HasRefPrice(row, priced) == row.ticker \in priced \/ row.buy_price # Null

RECURSIVE Backfill(_, _, _, _, _, _, _)
Backfill(idx, st, op, new_opts, priced, found, day) ==
    IF idx = <<>> THEN new_opts
    ELSE LET row == st[Head(idx)]
             more == IF NeedsBackfill(row, op, new_opts) /\ HasRefPrice(row, priced)
                     THEN PickOptions(row.ticker, row.trade_id, found[row.ticker], day)
                     ELSE <<>>
         IN  Backfill(Tail(idx), st, op, new_opts \o more, priced, found, day)

NewOpts(st, op, cohort, cur, run_date, priced, found, day) ==
    Backfill(OpenIdx(st, cohort), st, op,
             NewSignalOpts(st, cohort, cur, run_date, priced, found, day),
             priced, found, day)

\* The tickers for which process_signals reads the snapshot price and asks
\* for contracts: the new buys and the open trades of the cohort without legs.
Pickers(st, op, cohort, cur) ==
    NewBuys(st, cohort, cur) \cup
    {st[i].ticker : i \in {j \in Range(OpenIdx(st, cohort)) :
                              \A k \in DOMAIN op : op[k].trade_id # st[j].trade_id}}

\* B. drops
\* mutant: the drop mask forgets the status test
IsDropAnyStatus(row, cohort, cur) ==
    /\ row.cohort = cohort
    /\ row.ticker \notin cur

IsDrop(row, cohort, cur) ==
    /\ row.cohort = cohort
    /\ row.status = "OPEN"
    /\ row.ticker \notin cur

DroppingIds(st, cohort, cur) ==
    {st[i].trade_id : i \in {j \in DOMAIN st : IsDrop(st[j], cohort, cur)}}

CloseStock(st, cohort, cur, run_date) ==
    [i \in DOMAIN st |->
        IF IsDrop(st[i], cohort, cur)
        THEN [st[i] EXCEPT !.drop_date = run_date, !.status = "CLOSED"]
        ELSE st[i]]

\* mutant: the legs of a dropped trade are left as they are
CloseOptsNone(op, ids) == op

CloseOpts(op, ids) ==
    [i \in DOMAIN op |->
        IF op[i].trade_id \in ids /\ op[i].status = "OPEN"
        THEN [op[i] EXCEPT !.status = "CLOSED"]
        ELSE op[i]]

StockAfterSignals(st, cohort, cur, run_date) ==
    CloseStock(st \o NewRows(st, cohort, cur, run_date), cohort, cur, run_date)

OptsAfterSignals(st, op, cohort, cur, run_date, priced, found, day) ==
    LET st1 == st \o NewRows(st, cohort, cur, run_date)
        op1 == op \o NewOpts(st, op, cohort, cur, run_date, priced, found, day)
    IN  CloseOpts(op1, DroppingIds(st1, cohort, cur))

\* ------------------------------------------------------------------------
\* resolve_prices
\* ------------------------------------------------------------------------
\* get_snapshots([ticker, "VOO"], {tgt: t}) returns both rows
HasBars(t, avail) == t \in avail

\* get_stock_price: first day base+1 .. base+5 that passes the constraints
\* and has bars; Null when there is none.
\* mutant: the scan without the drop-date constraint (rule 2)
RECURSIVE ScanFromNoMax(_, _, _, _, _, _)
ScanFromNoMax(i, base, min_date, max_date, avail, day) ==
    IF i > ScanDays THEN Null
    ELSE LET t == base + i
         IN  IF min_date # Null /\ t <= min_date
                  THEN ScanFromNoMax(i + 1, base, min_date, max_date, avail, day)
             ELSE IF t > day THEN Null
             ELSE IF HasBars(t, avail) THEN t
             ELSE ScanFromNoMax(i + 1, base, min_date, max_date, avail, day)

RECURSIVE ScanFrom(_, _, _, _, _, _)
ScanFrom(i, base, min_date, max_date, avail, day) ==
    IF i > ScanDays THEN Null
    ELSE LET t == base + i
         IN  IF max_date # Null /\ t >= max_date THEN Null
             ELSE IF min_date # Null /\ t <= min_date
                  THEN ScanFrom(i + 1, base, min_date, max_date, avail, day)
             ELSE IF t > day THEN Null
             ELSE IF HasBars(t, avail) THEN t
             ELSE ScanFrom(i + 1, base, min_date, max_date, avail, day)

\* mutant: the scan starts at Day + 2
GetStockPriceFromTwo(base, min_date, max_date, avail, day) ==
    ScanFrom(2, base, min_date, max_date, avail, day)

GetStockPrice(base, min_date, max_date, avail, day) ==
    ScanFrom(1, base, min_date, max_date, avail, day)

NeedsBuy(row) == row.buy_price = Null /\ row.signal_date # Null

NeedsSell(row) == row.sell_price = Null /\ row.drop_date # Null

BuyDateFor(row, avail, day) ==
    GetStockPrice(row.signal_date, Null, row.drop_date, avail, day)

ResolveBuys(st, avail, day) ==
    [i \in DOMAIN st |->
        IF NeedsBuy(st[i]) /\ BuyDateFor(st[i], avail, day) # Null
        THEN LET d == BuyDateFor(st[i], avail, day)
             IN  [st[i] EXCEPT !.buy_date = d,
                               !.buy_price = High(st[i].ticker, d),
                               !.spy_buy_price = SpyHigh(d)]
        ELSE st[i]]

SellDateFor(row, avail, day) ==
    GetStockPrice(row.drop_date, row.buy_date, Null, avail, day)

ResolveSells(st, avail, day) ==
    [i \in DOMAIN st |->
        IF NeedsSell(st[i]) /\ SellDateFor(st[i], avail, day) # Null
        THEN LET d == SellDateFor(st[i], avail, day)
             IN  [st[i] EXCEPT !.sell_date = d,
                               !.sell_price = Low(st[i].ticker, d),
                               !.spy_sell_price = SpyLow(d)]
        ELSE st[i]]

ResolveStock(st, avail, day) == ResolveSells(ResolveBuys(st, avail, day), avail, day)

\* df_opt.merge(df_stock[[trade_id, buy_date, sell_date]], on=trade_id, how=left):
\* one row per (leg, Position with the leg's trade_id), in ledger order.
Merged(st, op) ==
    Flatten([j \in 1..Len(op) |->
        LET own == SelectSeq([i \in 1..Len(st) |-> i],
                             LAMBDA i : st[i].trade_id = op[j].trade_id)
        IN  [k \in 1..Len(own) |->
                [leg |-> op[j], buy_date |-> st[own[k]].buy_date,
                 sell_date |-> st[own[k]].sell_date]]])

NeedsEntry(st, op) ==
    SelectSeq(Merged(st, op),
              LAMBDA m : m.leg.entry_price = Null /\ m.buy_date # Null)

NeedsExit(st, op) ==
    SelectSeq(Merged(st, op),
              LAMBDA m : m.leg.exit_price = Null /\ m.sell_date # Null)

EntryRequests(st, op) ==
    {<<m.leg.option_symbol, m.buy_date>> : m \in Range(NeedsEntry(st, op))}

ExitRequests(st, op) ==
    {<<m.leg.option_symbol, m.sell_date>> : m \in Range(NeedsExit(st, op))}

SameLeg(leg, m) ==
    leg.trade_id = m.leg.trade_id /\ leg.strategy = m.leg.strategy

RECURSIVE FillEntries(_, _, _)
FillEntries(rows, op, ok) ==
    IF rows = <<>> THEN op
    ELSE LET m == Head(rows)
             d == m.buy_date
             op1 == IF <<m.leg.option_symbol, d>> \in ok
                    THEN [k \in DOMAIN op |->
                            IF SameLeg(op[k], m)
                            THEN [op[k] EXCEPT
                                    !.entry_date = d,
                                    !.entry_price = OptClose(m.leg.option_symbol, d)]
                            ELSE op[k]]
                    ELSE op
         IN  FillEntries(Tail(rows), op1, ok)

RECURSIVE FillExits(_, _, _)
FillExits(rows, op, ok) ==
    IF rows = <<>> THEN op
    ELSE LET m == Head(rows)
             d == m.sell_date
             op1 == IF <<m.leg.option_symbol, d>> \in ok
                    THEN [k \in DOMAIN op |->
                            IF SameLeg(op[k], m)
                            THEN [op[k] EXCEPT
                                    !.exit_date = d,
                                    !.exit_price = OptClose(m.leg.option_symbol, d)]
                            ELSE op[k]]
                    ELSE op
         IN  FillExits(Tail(rows), op1, ok)

ResolveOpts(st, op, okEntry, okExit) ==
    FillExits(NeedsExit(st, op), FillEntries(NeedsEntry(st, op), op, okEntry), okExit)

\* ------------------------------------------------------------------------
\* PriceService: the store and _ensure_date_data
\* ------------------------------------------------------------------------
Threshold == 800

\* callers of _ensure_date_data and the PriceService instances they may use
\* (build_report's and the one resolve_prices constructs)
Callers == {1, 2}
Instances == {1, 2}

Targets == FirstTarget..LastTarget

Days == (FirstTarget - 3 * MaxBack - 5)..LastTarget

\* rows of a non-empty grouped response that pass the whitelist filter,
\* VOO not counted
RowCounts == {3, 900}

Max(a, b) == IF a > b THEN a ELSE b

\* SELECT count(*) FROM daily_prices WHERE date = d
Count(store, d) == store[d].n + (IF store[d].voo THEN 1 ELSE 0)

IsDateInDb(store, d) == Count(store, d) > Threshold

\* INSERT OR REPLACE of the filtered rows of a grouped response
SaveToDb(store, d, n, voo) ==
    [store EXCEPT ![d] = [n |-> Max(@.n, n), voo |-> @.voo \/ voo]]

\* INSERT OR REPLACE of the single benchmark row
SaveBenchmark(store, d) == [store EXCEPT ![d].voo = TRUE]

\* mutant: a weekend day steps back one day only
SkipWeekendOnce(d) == IF IsWeekend(d) THEN d - 1 ELSE d

\* while curr_date.weekday() >= 5: curr_date -= 1 day
RECURSIVE SkipWeekend(_)
SkipWeekend(d) == IF IsWeekend(d) THEN SkipWeekend(d - 1) ELSE d

IdleCall ==
    [pc |-> "idle", inst |-> 0, target |-> Null, mb |-> 0, curr |-> Null,
     iter |-> 0, log |-> <<>>, result |-> Null]

\* ------------------------------------------------------------------------
\* RankingService: extract_top_picks and the snapshot tables
\* ------------------------------------------------------------------------
TopTen == 10

RankDays == 1..MaxRankDay

RankCohorts == {COHORTS[1], COHORTS[2]}

Eleven == <<"A", "B", "C", "D", "E", "F", "G", "H", "I", "J", "K">>

\* The ranked frames given to extract_top_picks (tickers in rank order): the
\* empty one, a short one, and one with more than ten rows.
RankedInputs == {<<>>, <<"A">>, Eleven}

\* the frames of a cohort: the second cohort never has more than one ticker
RankedInputsOf(c) ==
    IF c = COHORTS[1] THEN RankedInputs ELSE RankedInputs \ {Eleven}

NoCall == [cohort |-> "", date |-> Null, ranked |-> <<>>, again |-> FALSE]

\* ranked_df.head(10)
Top10Of(ranked) == SubSeq(ranked, 1, Min(TopTen, Len(ranked)))

MaxOf(S) == CHOOSE x \in S : \A y \in S : y <= x

\* mutant: the history lookup takes the run date itself as previous date
LastDateUpTo(table, run_date) ==
    LET ds == {r.date : r \in {x \in BagToSet(table) : x.date <= run_date}}
    IN  IF ds = {} THEN Null ELSE MaxOf(ds)

\* SELECT MAX(date) FROM top10_<cohort> WHERE date < run_date
LastDate(table, run_date) ==
    LET ds == {r.date : r \in {x \in BagToSet(table) : x.date < run_date}}
    IN  IF ds = {} THEN Null ELSE MaxOf(ds)

\* prev_df rows of a ticker
PrevRows(table, last_date, t) ==
    {r \in BagToSet(table) : r.date = last_date /\ r.ticker = t}

FreshRow(t, run_date) ==
    [ticker |-> t, date |-> run_date, streak |-> 1, streak_start |-> run_date]

\* mutant: a continued streak restarts its start date
ContinuedRowRestart(t, run_date, old) ==
    [ticker |-> t, date |-> run_date, streak |-> old.streak + 1,
     streak_start |-> run_date]

ContinuedRow(t, run_date, old) ==
    [ticker |-> t, date |-> run_date, streak |-> old.streak + 1,
     streak_start |-> old.streak_start]

\* _calculate_streaks: the left merge of the top 10 with prev_df gives one row
\* per (top-10 ticker, prev_df row of the ticker), or one fresh row
StreakRows(table, top, run_date) ==
    LET last_date == LastDate(table, run_date)
        prev(t) == IF last_date = Null THEN {} ELSE PrevRows(table, last_date, t)
        rowsOf(t) == IF prev(t) = {} THEN {FreshRow(t, run_date)}
                     ELSE {ContinuedRow(t, run_date, r) : r \in prev(t)}
        copies(t, row) == IF prev(t) = {} THEN 1
                          ELSE LET src == CHOOSE r \in prev(t) :
                                              ContinuedRow(t, run_date, r) = row
                               IN  table[src]
        all == UNION {rowsOf(top[i]) : i \in DOMAIN top}
    IN  [row \in all |-> copies(row.ticker, row)]

\* mutant: nothing is deleted before the insert
DeleteNothing(table, run_date) == table

\* DELETE FROM top10_<cohort> WHERE date = run_date
DeleteDate(table, run_date) ==
    [r \in {x \in DOMAIN table : x.date # run_date} |-> table[r]]

\* _save_to_db: delete the date, then append the frame
SaveTop10(table, rows, run_date) == DeleteDate(table, run_date) (+) rows

\* ------------------------------------------------------------------------
\* RankingService.calculate_ranks
\* ------------------------------------------------------------------------
Labels ==
    {"latest_trading", "minus_1_week", "minus_1_month", "minus_1_year",
     "minus_13_months"}

\* the closes a ticker can have at a target date; Null is no row for the date
ClosesAt(l) ==
    CASE l = "latest_trading"  -> {Null} \cup (1..MaxClose)
      [] l = "minus_1_week"    -> {Null, 1}
      [] OTHER                 -> 1..MaxClose

\* a ticker without any row in prices_df
Absent == [l \in Labels |-> Null]

TickerCloses == {Absent} \cup {f \in [Labels -> {Null} \cup (1..MaxClose)] :
                                   \A l \in Labels : f[l] \in ClosesAt(l)}

NoPrices == [t \in Tickers |-> Absent]

\* ranked_df before the call and after it
NotRun == [done |-> FALSE, rows |-> <<>>]

Returned(rows) == [done |-> TRUE, rows |-> rows]

\* a missing value of a column of returns or of rank changes
NaN == <<>>

\* (a - b) / b as the pair <<a - b, b>>; NaN when a close is missing
Return(a, b) == IF a = Null \/ b = Null THEN NaN ELSE <<a - b, b>>

\* comparison of two returns with positive denominators
Greater(x, y) == x[1] * y[2] > y[1] * x[2]

\* Series.rank(ascending=False, method="min"): NaN keeps NaN (rank Null)
RankMin(rets, t) ==
    IF rets[t] = NaN THEN Null
    ELSE 1 + Cardinality({u \in DOMAIN rets :
                            rets[u] # NaN /\ Greater(rets[u], rets[t])})

\* pivoted.index: the tickers with at least one row
Pivoted(cl) == {t \in DOMAIN cl : cl[t] # Absent}

\* step 5: the assembled frame, one row per ticker of the pivot
RankFrame(cl) ==
    LET idx == Pivoted(cl)
        cur == [t \in idx |-> Return(cl[t]["latest_trading"], cl[t]["minus_1_year"])]
        prv == [t \in idx |-> Return(cl[t]["minus_1_month"], cl[t]["minus_13_months"])]
        wk  == [t \in idx |-> Return(cl[t]["latest_trading"], cl[t]["minus_1_week"])]
    IN  [t \in idx |->
            LET cr == RankMin(cur, t)
                pr == RankMin(prv, t)
            IN  [ticker |-> t,
                 current_return |-> cur[t],
                 last_week_return |-> wk[t],
                 last_month_return |-> prv[t],
                 current_rank |-> cr,
                 last_month_rank |-> pr,
                 rank_change |-> IF cr = Null \/ pr = Null THEN NaN ELSE <<pr - cr>>]]

\* df.dropna()
NotNa(row) ==
    /\ row.current_return # NaN
    /\ row.last_week_return # NaN
    /\ row.last_month_return # NaN
    /\ row.current_rank # Null
    /\ row.last_month_rank # Null
    /\ row.rank_change # NaN

\* mutant: the rank filter is left out
SteadyAlways(row) == TRUE

\* df["current_rank"] <= df["last_month_rank"]
Steady(row) == row.current_rank <= row.last_month_rank

Kept(cl) ==
    LET frame == RankFrame(cl)
    IN  {frame[t] : t \in {u \in DOMAIN frame : NotNa(frame[u]) /\ Steady(frame[u])}}

\* sort_values("current_return", ascending=False): the orders of a set of
\* rows by falling return (rows of equal return in either order)
SortedOrders(rows) ==
    {sq \in [1..Cardinality(rows) -> rows] :
        /\ \A i, j \in DOMAIN sq : i # j => sq[i] # sq[j]
        /\ \A i, j \in DOMAIN sq :
              i < j => ~Greater(sq[j].current_return, sq[i].current_return)}

\* a label none of whose dates is a column of the pivot: KeyError
MissingColumn(cl) == \E l \in Labels : \A t \in DOMAIN cl : cl[t][l] = Null

\* ------------------------------------------------------------------------
\* OptionPicker.find_best_contract
\* ------------------------------------------------------------------------
StrikeWeight == 5

Abs(x) == IF x < 0 THEN -x ELSE x

KnownStrategy(s) == s \in Range(Strategies)

TargetDays(s) ==
    CASE s = "100d_Call" -> 100
      [] s = "500d_LEAP" -> 500
      [] s = "Short_Put" -> 30

\* target_strike / stock_price, in hundredths
StrikePct(s) ==
    CASE s = "100d_Call" -> 105
      [] s = "500d_LEAP" -> 110
      [] s = "Short_Put" -> 100

\* target_date = date.today() + timedelta(days=target_days)
TargetDate(q) == q.today + TargetDays(q.strategy_type)

\* 100 * target_strike
TargetStrike100(q) == q.stock_price * StrikePct(q.strategy_type)

\* mutant: the strike distance is not weighted
ScoreUnweighted(c, q) ==
    Abs(c.expiration_date - TargetDate(q)) * TargetStrike100(q)
        + 100 * Abs(100 * c.strike_price - TargetStrike100(q))

\* score = date_diff + strike_diff_pct * 5.0, times 100 * target_strike (a
\* positive factor common to all candidates of a call) to stay in integers
Score(c, q) ==
    Abs(c.expiration_date - TargetDate(q)) * TargetStrike100(q)
        + StrikeWeight * 100 * Abs(100 * c.strike_price - TargetStrike100(q))

NoContract == [expiration_date |-> Null, strike_price |-> Null]

\* the loop of lines 90-104: best_c after the candidates from i on; have is
\* FALSE while min_score is still infinite
RECURSIVE SelectFrom(_, _, _, _, _, _)
SelectFrom(cands, q, i, have, min_score, best) ==
    IF i > Len(cands) THEN best
    ELSE LET score == Score(cands[i], q)
         IN  IF ~have \/ score < min_score
             THEN SelectFrom(cands, q, i + 1, TRUE, score, cands[i])
             ELSE SelectFrom(cands, q, i + 1, have, min_score, best)

\* the days and strikes of the contracts of a response
ExpOffsets == {-50, -5, 0, 15}

StrikePrices == {100, 102, 105}

StockPrices == {100}

Contracts(s, day) ==
    [expiration_date : {day + TargetDays(s) + o : o \in ExpOffsets},
     strike_price : StrikePrices]

Responses(s, day) ==
    UNION {[1..n -> Contracts(s, day)] : n \in 0..MaxCands}

Queries ==
    UNION {{[strategy_type |-> s, stock_price |-> p, today |-> FirstDay,
             candidates |-> r] : r \in Responses(s, FirstDay)} :
              <<s, p>> \in Range(Strategies) \X StockPrices}
      \cup {[strategy_type |-> "other", stock_price |-> p, today |-> FirstDay,
             candidates |-> <<>>] : p \in StockPrices}

NoQuery ==
    [strategy_type |-> "other", stock_price |-> Null, today |-> Null,
     candidates |-> <<>>]

NotCalled == [done |-> FALSE, contract |-> NoContract]

\* ------------------------------------------------------------------------
\* build_report
\* ------------------------------------------------------------------------
Weekdays(lo, hi) == {d \in lo..hi : ~IsWeekend(d)}

\* The top_10 frames a ranking can give: sequences of distinct tickers of the
\* cohort, the empty one included
Top10s(cohort) ==
    {s \in UNION {[1..n -> CohortTickers(cohort)] :
                    n \in 0..Cardinality(CohortTickers(cohort))} :
        \A i, j \in DOMAIN s : i # j => s[i] # s[j]}

StrategySet == Range(Strategies)

\* The answers of the contract search for one ticker: the strategies for
\* which find_best_contract returns a contract.
FoundSets == {{}, {"100d_Call"}, {"100d_Call", "Short_Put"}}

InitLedgers ==
    /\ today = FirstDay
    /\ pc = "idle"
    /\ ci = 0
    /\ runDate = Null
    /\ runs = 0
    /\ stock = <<>>
    /\ opts = <<>>
    /\ bars = {}
    /\ current = {}
    /\ db = [d \in Days |-> [n |-> 0, voo |-> FALSE]]
    /\ sem = [i \in Instances |-> FALSE]
    /\ call = [c \in Callers |-> IdleCall]
    /\ snap = [c \in RankCohorts |-> EmptyBag]
    /\ last = NoCall

\* no option resolution under way
LegIdle == legSt = <<>> /\ legOp = <<>> /\ legBars = {} /\ legRuns = 0

\* no stock resolution under way
FillIdle == fillSt = <<>> /\ fillUp = {} /\ fillBars = {} /\ fillDay = Null

\* no reference price looked up
RefIdle == refRows = <<>> /\ refPrice = Null

NoSignalInput == [st |-> <<>>, op |-> <<>>, priced |-> {}, top10 |-> <<>>]

NotSaved == [done |-> FALSE, st |-> <<>>, op |-> <<>>]

\* no single process_signals call under way
BfIdle == bfIn = NoSignalInput /\ bfOut = NotSaved

\* the tickers with rows in daily_prices: a cohort member, a ticker of
\* another cohort and the benchmark
StoreTickers == {"A", "C", "VOO"}

\* the cohort being ranked; CohortTickers of it is cohort_df['symbol']
RankedCohort == COHORTS[3]

NoStore == [t \in StoreTickers |-> Absent]

NotRanked == [done |-> FALSE, tickers |-> <<>>, opened |-> {}]

\* no cohort being ranked from the store
CohortIdle == dbCloses = NoStore /\ top_10 = NotRanked

Init ==
    /\ InitLedgers
    /\ closes = NoPrices
    /\ ranked_df = NotRun
    /\ query = NoQuery
    /\ best_c = NotCalled
    /\ LegIdle
    /\ FillIdle
    /\ RefIdle
    /\ BfIdle
    /\ CohortIdle

\* build_report up to step 1: tracker.resolve_prices()
ResolvePrices ==
    /\ pc = "idle"
    /\ runs < MaxRuns
    /\ \E rd \in FirstDay..today :
       \E fetched \in SUBSET (Weekdays(FirstDay + 1, today) \ bars) :
          LET avail == bars \cup fetched
              st1 == ResolveStock(stock, avail, today)
          IN  /\ runDate' = rd
              /\ bars' = avail
              /\ stock' = st1
              /\ \E okEntry \in SUBSET EntryRequests(st1, opts) :
                 \E okExit \in SUBSET ExitRequests(st1, opts) :
                    opts' = ResolveOpts(st1, opts, okEntry, okExit)
    /\ pc' = "rank"
    /\ ci' = 1
    /\ runs' = runs + 1
    /\ UNCHANGED <<today, current>>
    /\ UNCHANGED notTracker

\* build_report step 4, lines 52-59: the cohort's top_10 (empty when the
\* ranking is empty)
Rank ==
    /\ pc = "rank"
    /\ \E t10 \in Top10s(COHORTS[ci]) : current' = CurrentTickers(t10)
    /\ pc' = "signal"
    /\ UNCHANGED <<today, ci, runDate, runs, stock, opts, bars>>
    /\ UNCHANGED notTracker

Finish(i) ==
    IF i = Len(COHORTS)
    THEN pc' = "idle" /\ ci' = 0 /\ runDate' = Null
    ELSE pc' = "rank" /\ ci' = i + 1 /\ runDate' = runDate

\* build_report line 63: process_signals on a non-empty top_10
\* (a call that would take a ledger past MaxPos or MaxLegs rows is outside
\* the model)
ProcessSignals ==
    /\ pc = "signal"
    /\ current # {}
    /\ \E priced \in SUBSET Pickers(stock, opts, COHORTS[ci], current) :
       \E found \in [Pickers(stock, opts, COHORTS[ci], current) -> FoundSets] :
          LET c == COHORTS[ci]
              op1 == OptsAfterSignals(stock, opts, c, current, runDate,
                                      priced, found, today)
          IN  /\ Len(stock) + Len(NewRows(stock, c, current, runDate)) <= MaxPos
              /\ Len(op1) <= MaxLegs
              /\ stock' = StockAfterSignals(stock, c, current, runDate)
              /\ opts' = op1
    /\ Finish(ci)
    /\ current' = {}
    /\ UNCHANGED <<today, runs, bars>>
    /\ UNCHANGED notTracker

\* an empty top_10 frame has no "ticker" column: top_5["ticker"] raises and
\* the exception leaves build_report
ProcessSignalsEmpty ==
    /\ pc = "signal"
    /\ current = {}
    /\ pc' = "idle"
    /\ ci' = 0
    /\ runDate' = Null
    /\ UNCHANGED <<today, runs, stock, opts, bars, current>>
    /\ UNCHANGED notTracker

Tick ==
    /\ pc = "idle"
    /\ today < MaxDay
    /\ today' = today + 1
    /\ runs' = 0
    /\ UNCHANGED <<pc, ci, runDate, stock, opts, bars, current>>
    /\ UNCHANGED notTracker

Next == ResolvePrices \/ Rank \/ ProcessSignals \/ ProcessSignalsEmpty \/ Tick

Spec == Init /\ [][Next]_vars

\* ------------------------------------------------------------------------
\* _ensure_date_data, one action per stretch between two suspension points
\* ------------------------------------------------------------------------
Logged(c, d, outcome) == Append(call[c].log, <<d, outcome>>)

\* the call starts: curr_date = target
EnsureDateData(c) ==
    /\ call[c].pc = "idle"
    /\ \E t \in Targets : \E m \in 0..MaxBack : \E i \in Instances :
          call' = [call EXCEPT ![c] =
                      [pc |-> "loop", inst |-> i, target |-> t, mb |-> m,
                       curr |-> t, iter |-> 0, log |-> <<>>, result |-> Null]]
    /\ UNCHANGED <<db, sem>>
    /\ UNCHANGED notEnsure

\* line 129: the loop is exhausted
RaiseGap(c) ==
    /\ call[c].pc = "loop"
    /\ call[c].iter = call[c].mb + 1
    /\ call' = [call EXCEPT ![c].pc = "gap"]
    /\ UNCHANGED <<db, sem>>
    /\ UNCHANGED notEnsure

\* lines 104-113: the candidate is in the store; the benchmark row is
\* fetched only when it is missing
CacheHit(c) ==
    /\ call[c].pc = "loop"
    /\ call[c].iter <= call[c].mb
    /\ LET d == SkipWeekend(call[c].curr)
       IN  /\ IsDateInDb(db, d)
           /\ call' = [call EXCEPT
                         ![c].curr = d,
                         ![c].log = Logged(c, d, "cached"),
                         ![c].pc = IF db[d].voo THEN "returned" ELSE "bench",
                         ![c].result = IF db[d].voo THEN d ELSE Null]
    /\ UNCHANGED <<db, sem>>
    /\ UNCHANGED notEnsure

\* lines 104-116: the candidate is not in the store
CacheMiss(c) ==
    /\ call[c].pc = "loop"
    /\ call[c].iter <= call[c].mb
    /\ LET d == SkipWeekend(call[c].curr)
       IN  /\ ~IsDateInDb(db, d)
           /\ call' = [call EXCEPT ![c].curr = d, ![c].pc = "wait_sem"]
    /\ UNCHANGED <<db, sem>>
    /\ UNCHANGED notEnsure

\* async with self._semaphore
Acquire(c) ==
    /\ call[c].pc = "wait_sem"
    /\ ~sem[call[c].inst]
    /\ sem' = [sem EXCEPT ![call[c].inst] = TRUE]
    /\ call' = [call EXCEPT ![c].pc = "fetching"]
    /\ UNCHANGED db
    /\ UNCHANGED notEnsure

\* _fetch_polygon_grouped: HTTP 429, asyncio.sleep(65)
RateLimited(c) ==
    /\ call[c].pc = "fetching"
    /\ call' = [call EXCEPT ![c].pc = "cooldown"]
    /\ UNCHANGED <<db, sem>>
    /\ UNCHANGED notEnsure

\* the recursive call after the cooldown
Retry(c) ==
    /\ call[c].pc = "cooldown"
    /\ call' = [call EXCEPT ![c].pc = "fetching"]
    /\ UNCHANGED <<db, sem>>
    /\ UNCHANGED notEnsure

\* client.get or resp.json() raises: the exception leaves _ensure_date_data
FetchRaises(c) ==
    /\ call[c].pc = "fetching"
    /\ sem' = [sem EXCEPT ![call[c].inst] = FALSE]
    /\ call' = [call EXCEPT ![c].pc = "neterr",
                            ![c].log = Logged(c, call[c].curr, "error")]
    /\ UNCHANGED db
    /\ UNCHANGED notEnsure

\* a non-200 answer or an empty result list: backtrack
FetchEmpty(c) ==
    /\ call[c].pc = "fetching"
    /\ sem' = [sem EXCEPT ![call[c].inst] = FALSE]
    /\ call' = [call EXCEPT ![c].pc = "loop",
                            ![c].log = Logged(c, call[c].curr, "empty"),
                            ![c].curr = call[c].curr - 1,
                            ![c].iter = call[c].iter + 1]
    /\ UNCHANGED db
    /\ UNCHANGED notEnsure

\* a non-empty result list: _save_to_db, then the benchmark row
FetchData(c) ==
    /\ call[c].pc = "fetching"
    /\ sem' = [sem EXCEPT ![call[c].inst] = FALSE]
    /\ \E n \in RowCounts : \E voo \in BOOLEAN :
          LET d == call[c].curr
              db1 == SaveToDb(db, d, n, voo)
          IN  /\ db' = db1
              /\ call' = [call EXCEPT
                            ![c].log = Logged(c, d, "fetched"),
                            ![c].pc = IF db1[d].voo THEN "returned" ELSE "bench",
                            ![c].result = IF db1[d].voo THEN d ELSE Null]
    /\ UNCHANGED notEnsure

\* _fetch_and_save_benchmark: 200 with a bar
BenchmarkSaved(c) ==
    /\ call[c].pc = "bench"
    /\ db' = SaveBenchmark(db, call[c].curr)
    /\ call' = [call EXCEPT ![c].pc = "returned", ![c].result = call[c].curr]
    /\ UNCHANGED sem
    /\ UNCHANGED notEnsure

\* _fetch_and_save_benchmark: a non-200 answer or no bar
BenchmarkNone(c) ==
    /\ call[c].pc = "bench"
    /\ call' = [call EXCEPT ![c].pc = "returned", ![c].result = call[c].curr]
    /\ UNCHANGED <<db, sem>>
    /\ UNCHANGED notEnsure

\* _fetch_and_save_benchmark: client.get raises
BenchmarkRaises(c) ==
    /\ call[c].pc = "bench"
    /\ call' = [call EXCEPT ![c].pc = "neterr"]
    /\ UNCHANGED <<db, sem>>
    /\ UNCHANGED notEnsure

Ended(c) == call[c].pc \in {"returned", "gap", "neterr"}

\* the caller has taken the result or the exception
Done(c) ==
    /\ Ended(c)
    /\ call' = [call EXCEPT ![c] = IdleCall]
    /\ UNCHANGED <<db, sem>>
    /\ UNCHANGED notEnsure

NextEnsure ==
    \E c \in Callers :
        \/ EnsureDateData(c)
        \/ RaiseGap(c)
        \/ CacheHit(c)
        \/ CacheMiss(c)
        \/ Acquire(c)
        \/ RateLimited(c)
        \/ Retry(c)
        \/ FetchRaises(c)
        \/ FetchEmpty(c)
        \/ FetchData(c)
        \/ BenchmarkSaved(c)
        \/ BenchmarkNone(c)
        \/ BenchmarkRaises(c)
        \/ Done(c)

SpecEnsure == Init /\ [][NextEnsure]_vars

\* the steps of a call in progress; the event loop resumes every coroutine
\* that can go on
Step(c) ==
    \/ RaiseGap(c)
    \/ CacheHit(c)
    \/ CacheMiss(c)
    \/ Acquire(c)
    \/ RateLimited(c)
    \/ Retry(c)
    \/ FetchRaises(c)
    \/ FetchEmpty(c)
    \/ FetchData(c)
    \/ BenchmarkSaved(c)
    \/ BenchmarkNone(c)
    \/ BenchmarkRaises(c)

SpecEnsureFair == SpecEnsure /\ \A c \in Callers : WF_vars(Step(c))

\* ------------------------------------------------------------------------
\* extract_top_picks
\* ------------------------------------------------------------------------
ThisCall(c, d, ranked) ==
    [cohort |-> c, date |-> d, ranked |-> ranked,
     again |-> (last.cohort = c /\ last.date = d /\ last.ranked = ranked)]

\* a non-empty ranked frame: head(10), streaks, delete-then-insert
ExtractTopPicks ==
    /\ \E c \in RankCohorts : \E d \in RankDays :
        \E ranked \in RankedInputsOf(c) \ {<<>>} :
          /\ snap' = [snap EXCEPT ![c] =
                         SaveTop10(snap[c], StreakRows(snap[c], Top10Of(ranked), d), d)]
          /\ last' = ThisCall(c, d, ranked)
    /\ UNCHANGED notRank

\* lines 78-80: an empty ranked frame returns at once
ExtractEmpty ==
    /\ \E c \in RankCohorts : \E d \in RankDays :
          last' = ThisCall(c, d, <<>>)
    /\ UNCHANGED snap
    /\ UNCHANGED notRank

NextRank == ExtractTopPicks \/ ExtractEmpty

SpecRank == Init /\ [][NextRank]_vars

\* ------------------------------------------------------------------------
\* calculate_ranks
\* ------------------------------------------------------------------------
InitCalc ==
    /\ InitLedgers
    /\ closes \in [Tickers -> TickerCloses]
    /\ ranked_df = NotRun
    /\ query = NoQuery
    /\ best_c = NotCalled
    /\ LegIdle
    /\ FillIdle
    /\ RefIdle
    /\ BfIdle
    /\ CohortIdle

\* lines 19-20 and 27-36: an empty frame or a missing date column
CalculateRanksEmpty ==
    /\ ranked_df = NotRun
    /\ closes = NoPrices \/ MissingColumn(closes)
    /\ ranked_df' = Returned(<<>>)
    /\ UNCHANGED closes
    /\ UNCHANGED notCalc

\* lines 38-72
CalculateRanks ==
    /\ ranked_df = NotRun
    /\ ~MissingColumn(closes)
    /\ \E rows \in SortedOrders(Kept(closes)) : ranked_df' = Returned(rows)
    /\ UNCHANGED closes
    /\ UNCHANGED notCalc

NextCalc == CalculateRanksEmpty \/ CalculateRanks

SpecCalc == InitCalc /\ [][NextCalc]_vars

\* ------------------------------------------------------------------------
\* find_best_contract
\* ------------------------------------------------------------------------
InitPick ==
    /\ InitLedgers
    /\ closes = NoPrices
    /\ ranked_df = NotRun
    /\ query \in Queries
    /\ best_c = NotCalled
    /\ LegIdle
    /\ FillIdle
    /\ RefIdle
    /\ BfIdle
    /\ CohortIdle

\* lines 51-52 and 81-84: an unknown strategy or no candidates
FindBestNone ==
    /\ ~best_c.done
    /\ ~KnownStrategy(query.strategy_type) \/ query.candidates = <<>>
    /\ best_c' = [done |-> TRUE, contract |-> NoContract]
    /\ UNCHANGED query
    /\ UNCHANGED notPick

\* lines 86-114
FindBestContract ==
    /\ ~best_c.done
    /\ KnownStrategy(query.strategy_type)
    /\ query.candidates # <<>>
    /\ best_c' = [done |-> TRUE,
                  contract |-> SelectFrom(query.candidates, query, 1, FALSE, 0,
                                          NoContract)]
    /\ UNCHANGED query
    /\ UNCHANGED notPick

NextPick == FindBestNone \/ FindBestContract

SpecPick == InitPick /\ [][NextPick]_vars

\* ------------------------------------------------------------------------
\* resolve_prices, part B: the option legs of one Position
\* ------------------------------------------------------------------------
LegDays == (FirstDay + 1)..MaxLegDay

\* a Position signalled on FirstDay whose stock dates are resolved
ResolvedPosition(buy, sell) ==
    [NewPosition("A", COHORTS[1], FirstDay) EXCEPT
        !.buy_date = buy,
        !.buy_price = High("A", buy),
        !.spy_buy_price = SpyHigh(buy),
        !.drop_date = IF sell = Null THEN Null ELSE sell - 1,
        !.sell_date = sell,
        !.sell_price = IF sell = Null THEN Null ELSE Low("A", sell),
        !.spy_sell_price = IF sell = Null THEN Null ELSE SpyLow(sell),
        !.status = IF sell = Null THEN "OPEN" ELSE "CLOSED"]

LegOf(pos) ==
    NewLeg(pos.trade_id, Strategies[1],
           BestContract(pos.ticker, Strategies[1], pos.signal_date))

InitLeg ==
    /\ InitLedgers
    /\ closes = NoPrices
    /\ ranked_df = NotRun
    /\ query = NoQuery
    /\ best_c = NotCalled
    /\ \E buy \in LegDays : \E sell \in {Null} \cup {d \in LegDays : d > buy + 1} :
          /\ legSt = <<ResolvedPosition(buy, sell)>>
          /\ legOp = <<LegOf(ResolvedPosition(buy, sell))>>
    /\ legBars \in SUBSET LegDays
    /\ legRuns = 0
    /\ FillIdle
    /\ RefIdle
    /\ BfIdle
    /\ CohortIdle

\* _fetch_option_price(symbol, date_str): the requests of a run that can
\* return a close are those for a day that has a bar
Answerable(reqs) == {r \in reqs : r[2] \in legBars}

\* lines 225-255: one run of the option resolution; a request that can be
\* answered may still fail (the except branch of _fetch_option_price)
ResolveLegs ==
    /\ legSt # <<>>
    /\ legRuns < MaxLegRuns
    /\ \E okEntry \in SUBSET Answerable(EntryRequests(legSt, legOp)) :
       \E okExit \in SUBSET Answerable(ExitRequests(legSt, legOp)) :
          legOp' = ResolveOpts(legSt, legOp, okEntry, okExit)
    /\ legRuns' = legRuns + 1
    /\ UNCHANGED <<legSt, legBars>>
    /\ UNCHANGED notLeg

NextLeg == ResolveLegs

SpecLeg == InitLeg /\ [][NextLeg]_vars

\* ------------------------------------------------------------------------
\* resolve_prices, part A: the stock prices of one Position over the days
\* ------------------------------------------------------------------------
InitFill ==
    /\ InitLedgers
    /\ closes = NoPrices
    /\ ranked_df = NotRun
    /\ query = NoQuery
    /\ best_c = NotCalled
    /\ LegIdle
    /\ fillSt = <<NewPosition("A", COHORTS[1], SignalDay)>>
    /\ fillUp \in SUBSET Weekdays(SignalDay + 1, MaxFillDay)
    /\ fillBars = {}
    /\ fillDay = SignalDay
    /\ RefIdle
    /\ BfIdle
    /\ CohortIdle

\* lines 160-223: a run resolves the stock prices; _ensure_date_data brings
\* the bars of some of the days the upstream has (a failed fetch brings none)
FillResolve ==
    /\ fillSt # <<>>
    /\ \E fetched \in SUBSET ((fillUp \cap (SignalDay..fillDay)) \ fillBars) :
          /\ fillBars' = fillBars \cup fetched
          /\ fillSt' = ResolveStock(fillSt, fillBars \cup fetched, fillDay)
    /\ UNCHANGED <<fillUp, fillDay>>
    /\ UNCHANGED notFill

\* process_signals of a run with run_date rd drops the Position
FillDrop ==
    /\ fillSt # <<>>
    /\ \E rd \in SignalDay..fillDay :
          fillSt' = CloseStock(fillSt, COHORTS[1], {}, rd)
    /\ fillSt' # fillSt
    /\ UNCHANGED <<fillUp, fillBars, fillDay>>
    /\ UNCHANGED notFill

FillTick ==
    /\ fillSt # <<>>
    /\ fillDay < MaxFillDay
    /\ fillDay' = fillDay + 1
    /\ UNCHANGED <<fillSt, fillUp, fillBars>>
    /\ UNCHANGED notFill

NextFill == FillResolve \/ FillDrop \/ FillTick

SpecFill == InitFill /\ [][NextFill]_vars

\* a run of resolve_prices in which every fetch of an upstream bar succeeds
FillResolveAll ==
    /\ FillResolve
    /\ fillBars' = fillBars \cup (fillUp \cap (SignalDay..fillDay))

\* the days go by, and runs in which the fetches succeed keep occurring
SpecFillFair ==
    SpecFill /\ WF_vars(FillTick) /\ WF_vars(FillResolveAll)

\* ------------------------------------------------------------------------
\* process_signals.get_reference_price
\* ------------------------------------------------------------------------
\* get_snapshots selects the rows of the five target dates without ORDER BY:
\* the rows of a ticker come in any order of their dates
RefFrames ==
    {rows \in UNION {[1..n -> [date : Labels, close : 1..MaxClose]] :
                        n \in 0..MaxRefRows} :
        \A i, j \in DOMAIN rows : i # j => rows[i].date # rows[j].date}

InitRef ==
    /\ InitLedgers
    /\ closes = NoPrices
    /\ ranked_df = NotRun
    /\ query = NoQuery
    /\ best_c = NotCalled
    /\ LegIdle
    /\ FillIdle
    /\ refRows \in RefFrames
    /\ refPrice = Null
    /\ BfIdle
    /\ CohortIdle
    /\ CohortIdle

\* lines 72-79: the close of the first row of the ticker, 0.0 without rows
GetReferencePrice ==
    /\ refPrice = Null
    /\ refPrice' = IF refRows = <<>> THEN 0 ELSE refRows[1].close
    /\ UNCHANGED refRows
    /\ UNCHANGED notRef

NextRef == GetReferencePrice

SpecRef == InitRef /\ [][NextRef]_vars

\* ------------------------------------------------------------------------
\* process_signals: one call on given ledgers
\* ------------------------------------------------------------------------
\* a Position of ticker t signalled on FirstDay, with or without a buy price,
\* open or dropped
LedgerRows(t) ==
    {[NewPosition(t, c, FirstDay) EXCEPT
         !.buy_date = IF bought THEN FirstDay + 1 ELSE Null,
         !.buy_price = IF bought THEN High(t, FirstDay + 1) ELSE Null,
         !.spy_buy_price = IF bought THEN SpyHigh(FirstDay + 1) ELSE Null,
         !.drop_date = IF open THEN Null ELSE FirstDay + 1,
         !.status = IF open THEN "OPEN" ELSE "CLOSED"] :
       c \in {COHORTS[1], COHORTS[2]}, bought \in BOOLEAN, open \in BOOLEAN}

\* the option ledger: for each Position, no leg or its first-strategy leg
LedgerLegs(st) ==
    {SelectSeq([i \in DOMAIN st |-> LegOf(st[i])], LAMBDA leg : leg.trade_id \in ids) :
        ids \in SUBSET {st[i].trade_id : i \in DOMAIN st}}

\* the non-empty top-10 frames passed in: one, two and six tickers
SignalTop10s == {<<"A">>, <<"A", "B">>, <<"B", "C", "D", "E", "F", "G">>}

SignalTickers == Tickers \cup {"D", "E", "F", "G"}

SignalInputs ==
    {[st |-> <<r1, r2>>, op |-> op, priced |-> priced, top10 |-> t10] :
        r1 \in LedgerRows("A"), r2 \in LedgerRows("B"),
        op \in UNION {LedgerLegs(<<a, b>>) : a \in LedgerRows("A"), b \in LedgerRows("B")},
        priced \in SUBSET {"A", "B"}, t10 \in SignalTop10s}

InitSignal ==
    /\ InitLedgers
    /\ closes = NoPrices
    /\ ranked_df = NotRun
    /\ query = NoQuery
    /\ best_c = NotCalled
    /\ LegIdle
    /\ FillIdle
    /\ RefIdle
    /\ bfIn \in SignalInputs
    /\ bfOut = NotSaved
    /\ CohortIdle

\* find_best_contract finds a contract for every strategy
AllFound == [t \in SignalTickers |-> StrategySet]

\* lines 58-135, for the first cohort on the day after the signals
ProcessSignalsOnce ==
    /\ ~bfOut.done
    /\ bfIn.st # <<>>
    /\ LET c == COHORTS[1]
           day == FirstDay + 2
           cur == CurrentTickers(bfIn.top10)
       IN  bfOut' = [done |-> TRUE,
                     st |-> StockAfterSignals(bfIn.st, c, cur, day),
                     op |-> OptsAfterSignals(bfIn.st, bfIn.op, c, cur, day,
                                             bfIn.priced, AllFound, day)]
    /\ UNCHANGED bfIn
    /\ UNCHANGED notBf

NextSignal == ProcessSignalsOnce

SpecSignal == InitSignal /\ [][NextSignal]_vars

\* ------------------------------------------------------------------------
\* build_report, one cohort: get_snapshots, calculate_ranks, top 10, buys
\* ------------------------------------------------------------------------
\* a ticker has no row at all or a close at each of the five target dates
StoreCloses == {Absent} \cup {f \in TickerCloses : \A l \in Labels : f[l] # Null}

\* prices.py line 95-96: target_set = set(tickers) | {"VOO"}
GetSnapshots(store, tickers) ==
    [t \in DOMAIN store \cap (tickers \cup {"VOO"}) |-> store[t]]

TickersOf(rows) == [i \in DOMAIN rows |-> rows[i].ticker]

InitCohort ==
    /\ InitLedgers
    /\ closes = NoPrices
    /\ ranked_df = NotRun
    /\ query = NoQuery
    /\ best_c = NotCalled
    /\ LegIdle
    /\ FillIdle
    /\ RefIdle
    /\ BfIdle
    /\ dbCloses \in [StoreTickers -> StoreCloses]
    /\ top_10 = NotRanked

\* run_report.py lines 52-59 with an empty ranking: no snapshot is saved
RankCohortEmpty ==
    /\ ~top_10.done
    /\ LET prices_df == GetSnapshots(dbCloses, CohortTickers(RankedCohort))
       IN  /\ Pivoted(prices_df) = {} \/ MissingColumn(prices_df)
                                      \/ Kept(prices_df) = {}
           /\ top_10' = [done |-> TRUE, tickers |-> <<>>, opened |-> {}]
    /\ UNCHANGED dbCloses
    /\ UNCHANGED notCohort

\* run_report.py lines 52-63: the top-10 is saved and its first five
\* tickers are opened (no Position of the cohort is OPEN before)
RankCohort ==
    /\ ~top_10.done
    /\ LET prices_df == GetSnapshots(dbCloses, CohortTickers(RankedCohort))
       IN  /\ Pivoted(prices_df) # {}
           /\ ~MissingColumn(prices_df)
           /\ Kept(prices_df) # {}
           /\ \E rows \in SortedOrders(Kept(prices_df)) :
                 LET t10 == TickersOf(Top10Of(rows))
                 IN  top_10' = [done |-> TRUE, tickers |-> t10,
                                opened |-> NewBuys(<<>>, RankedCohort, CurrentTickers(t10))]
    /\ UNCHANGED dbCloses
    /\ UNCHANGED notCohort

NextCohortRank == RankCohortEmpty \/ RankCohort

SpecCohort == InitCohort /\ [][NextCohortRank]_vars

\* ------------------------------------------------------------------------
\* Properties of the ledgers (Spec)
\* ------------------------------------------------------------------------
IsOpen(row) == row.status = "OPEN"

IsClosed(row) == row.status = "CLOSED"

LegsOf(op, tid) == {k \in DOMAIN op : op[k].trade_id = tid}

\* a step of process_signals that ran to completion
SignalStep == pc = "signal" /\ current # {} /\ pc' # "signal"

\* a step of resolve_prices
ResolveStep == pc = "idle" /\ pc' = "rank"

\* C1: in every reachable state there is at most one OPEN Position per
\* (cohort, ticker).
C1_OneOpenPerCohortTicker ==
    \A i, j \in DOMAIN stock :
        (i # j /\ IsOpen(stock[i]) /\ IsOpen(stock[j]))
            => ~(stock[i].cohort = stock[j].cohort /\ stock[i].ticker = stock[j].ticker)

\* C1 witness: process_signals has just completed for a cohort in which a
\* Position opened by an earlier run (its buy is resolved) is still OPEN, so
\* its ticker was in the top 5 again; the ticker is OPEN in another cohort too.
C1_Witness ==
    /\ pc = "rank"
    /\ ci > 1
    /\ \E i, j \in DOMAIN stock :
        /\ i # j
        /\ stock[i].cohort = COHORTS[ci - 1]
        /\ stock[i].buy_price # Null
        /\ IsOpen(stock[i]) /\ IsOpen(stock[j])
        /\ stock[i].ticker = stock[j].ticker
        /\ stock[i].cohort # stock[j].cohort

\* C2: every OptionLeg is owned by exactly one Position: exactly one row of
\* the stock ledger carries the leg's trade_id.
C2_LegOwnedByExactlyOnePosition ==
    \A k \in DOMAIN opts :
        Cardinality({i \in DOMAIN stock : stock[i].trade_id = opts[k].trade_id}) = 1

\* C3: the option ledger holds at most one OptionLeg per (trade_id, strategy).
C3_OneLegPerTradeStrategy ==
    \A j, k \in DOMAIN opts :
        j # k => ~(opts[j].trade_id = opts[k].trade_id
                   /\ opts[j].strategy = opts[k].strategy)

\* C4: when process_signals(cohort, run_date) completes, every Position of the
\* cohort that was OPEN and whose ticker is not in the top 5 is CLOSED with
\* drop_date = run_date and no leg with its trade_id is OPEN; the Positions
\* whose ticker is in the top 5 stay OPEN.
C4_CloseTransition ==
    [][SignalStep =>
        \A i \in DOMAIN stock :
            (stock[i].cohort = COHORTS[ci] /\ IsOpen(stock[i])) =>
                IF stock[i].ticker \notin current
                THEN /\ IsClosed(stock'[i])
                     /\ stock'[i].drop_date = runDate
                     /\ \A k \in LegsOf(opts', stock[i].trade_id) : IsClosed(opts'[k])
                ELSE /\ IsOpen(stock'[i])
                     /\ stock'[i].drop_date = Null]_vars

\* C4 witness: a cohort holds a CLOSED Position with a CLOSED leg next to an
\* OPEN Position.
C4_Witness ==
    \E i, j \in DOMAIN stock :
        /\ stock[i].cohort = stock[j].cohort
        /\ IsClosed(stock[i]) /\ stock[i].drop_date # Null
        /\ IsOpen(stock[j])
        /\ \E k \in LegsOf(opts, stock[i].trade_id) : IsClosed(opts[k])

\* C5: CLOSED is terminal and rows are never deleted: in every step each row
\* stays at its index with its identity, a CLOSED Position stays CLOSED with
\* the same drop_date, and a CLOSED leg stays CLOSED.
C5_ClosedIsTerminal ==
    [][/\ Len(stock') >= Len(stock)
       /\ Len(opts') >= Len(opts)
       /\ \A i \in DOMAIN stock :
            /\ stock'[i].trade_id = stock[i].trade_id
            /\ stock'[i].cohort = stock[i].cohort
            /\ stock'[i].ticker = stock[i].ticker
            /\ stock'[i].signal_date = stock[i].signal_date
            /\ IsClosed(stock[i]) =>
                  (IsClosed(stock'[i]) /\ stock'[i].drop_date = stock[i].drop_date)
       /\ \A k \in DOMAIN opts :
            /\ opts'[k].trade_id = opts[k].trade_id
            /\ opts'[k].strategy = opts[k].strategy
            /\ opts'[k].option_symbol = opts[k].option_symbol
            /\ IsClosed(opts[k]) => IsClosed(opts'[k])]_vars

\* C5 witness: a CLOSED Position with a CLOSED leg whose sell price was
\* resolved by a later resolve_prices, in a cohort that was processed again.
C5_Witness ==
    \E i \in DOMAIN stock :
        /\ IsClosed(stock[i])
        /\ stock[i].sell_price # Null
        /\ \E k \in LegsOf(opts, stock[i].trade_id) : IsClosed(opts[k])
        /\ pc = "idle"

\* C6: process_signals creates, for each top-5 ticker without an OPEN Position
\* for (cohort, ticker), exactly one new row, OPEN with signal_date = run_date,
\* whatever the snapshot prices and the contract search give; and no row for a
\* ticker that has an OPEN Position.
C6_OpenTransition ==
    [][SignalStep =>
        LET c == COHORTS[ci]
            added == (Len(stock) + 1)..Len(stock')
            addedFor(t) == {i \in added : stock'[i].cohort = c /\ stock'[i].ticker = t}
        IN  /\ \A t \in current :
                IF t \in OpenTickers(stock, c)
                THEN addedFor(t) = {}
                ELSE /\ Cardinality(addedFor(t)) = 1
                     /\ \A i \in addedFor(t) :
                            /\ IsOpen(stock'[i])
                            /\ stock'[i].signal_date = runDate
            /\ \A i \in added : stock'[i].cohort = c /\ stock'[i].ticker \in current]_vars

\* C6 witness: the first run's process_signals has opened two Positions of one
\* cohort in one call, one with legs and one without any leg.
C6_Witness ==
    /\ today = FirstDay
    /\ \E i, j \in DOMAIN stock :
        /\ i # j
        /\ stock[i].cohort = stock[j].cohort
        /\ IsOpen(stock[i]) /\ IsOpen(stock[j])
        /\ stock[i].signal_date = stock[j].signal_date
        /\ LegsOf(opts, stock[i].trade_id) = {}
        /\ LegsOf(opts, stock[j].trade_id) # {}

\* C7: resolve_prices never sets buy_date to a day on or after a drop_date
\* that is recorded when the search runs, and never sets sell_date to a day on
\* or before the Position's resolved buy_date.
C7_ResolutionOrdering ==
    [][ResolveStep =>
        \A i \in DOMAIN stock :
            /\ (stock[i].buy_date = Null /\ stock'[i].buy_date # Null
                    /\ stock[i].drop_date # Null)
                  => stock'[i].buy_date < stock[i].drop_date
            /\ (stock[i].sell_date = Null /\ stock'[i].sell_date # Null
                    /\ stock'[i].buy_date # Null)
                  => stock'[i].sell_date > stock'[i].buy_date]_vars

\* C7 witness: a Position dropped with a drop_date before its buy_date, whose
\* sell search had to pass over the buy day.
C7_Witness ==
    \E i \in DOMAIN stock :
        /\ stock[i].drop_date # Null /\ stock[i].buy_date # Null
        /\ stock[i].sell_date # Null
        /\ stock[i].drop_date < stock[i].buy_date
        /\ stock[i].buy_date < stock[i].sell_date

\* C8: once buy_price (with buy_date and spy_buy_price), sell_price (with
\* sell_date and spy_sell_price), a leg's entry_price (with entry_date) or a
\* leg's exit_price (with exit_date) is filled, no later step changes it.
C8_FilledFieldsNeverChange ==
    [][/\ \A i \in DOMAIN stock :
            /\ stock[i].buy_price # Null =>
                  /\ stock'[i].buy_price = stock[i].buy_price
                  /\ stock'[i].buy_date = stock[i].buy_date
                  /\ stock'[i].spy_buy_price = stock[i].spy_buy_price
            /\ stock[i].sell_price # Null =>
                  /\ stock'[i].sell_price = stock[i].sell_price
                  /\ stock'[i].sell_date = stock[i].sell_date
                  /\ stock'[i].spy_sell_price = stock[i].spy_sell_price
       /\ \A k \in DOMAIN opts :
            /\ opts[k].entry_price # Null =>
                  /\ opts'[k].entry_price = opts[k].entry_price
                  /\ opts'[k].entry_date = opts[k].entry_date
            /\ opts[k].exit_price # Null =>
                  /\ opts'[k].exit_price = opts[k].exit_price
                  /\ opts'[k].exit_date = opts[k].exit_date]_vars

\* ------------------------------------------------------------------------
\* Properties of _ensure_date_data (SpecEnsure)
\* ------------------------------------------------------------------------
Friday(d) == d - ((d % 7) - 4)

\* C9: _ensure_date_data never returns a weekend day nor a day after its
\* target; with a Saturday or Sunday target the result is the preceding
\* Friday or an earlier weekday.
C9_WeekendSkip ==
    \A c \in Callers :
        call[c].pc = "returned" =>
            /\ ~IsWeekend(call[c].result)
            /\ call[c].result <= call[c].target
            /\ IsWeekend(call[c].target) => call[c].result <= Friday(call[c].target)

\* C9 witness: a call with a Sunday target has returned, after one backtrack.
C9_Witness ==
    \E c \in Callers :
        /\ call[c].pc = "returned"
        /\ call[c].target % 7 = 6
        /\ Len(call[c].log) = 2

Satisfied(e) == e[2] \in {"cached", "fetched"}

\* C10: a call examines at most max_backtrack + 1 candidates, each a weekday
\* strictly before the previous one; once ended, it has returned the first
\* candidate found in the store or fetched non-empty, and it has raised the
\* data-gap error exactly when no candidate was.
C10_BoundedBacktracking ==
    \A c \in Callers :
        LET log == call[c].log
        IN  /\ Len(log) <= call[c].mb + 1
            /\ \A k \in DOMAIN log : ~IsWeekend(log[k][1])
            /\ \A k \in DOMAIN log : k > 1 => log[k][1] < log[k - 1][1]
            /\ Ended(c) =>
                  /\ (\E k \in DOMAIN log : Satisfied(log[k])) =>
                        /\ call[c].pc = "returned"
                        /\ \E k \in DOMAIN log :
                              /\ Satisfied(log[k])
                              /\ call[c].result = log[k][1]
                              /\ \A j \in 1..(k - 1) : ~Satisfied(log[j])
                  /\ call[c].pc = "gap" <=> (\A k \in DOMAIN log : ~Satisfied(log[k]))

\* C11: whenever _ensure_date_data has returned a date d, the store holds the
\* benchmark (VOO) row of d, whatever the benchmark fetch answered.
C11_BenchmarkPresent ==
    \A c \in Callers :
        call[c].pc = "returned" => db[call[c].result].voo

\* C12: a bulk fetch answered with HTTP 429 is retried a bounded number of
\* times and then fails, so a call whose bulk fetch has started always ends.
C12_RateLimitRetryBounded ==
    \A c \in Callers : (call[c].pc = "fetching") ~> Ended(c)

InFlight(c) == call[c].pc \in {"fetching", "cooldown"}

\* C13: at most one bulk (grouped-daily) fetch is in flight at any time, the
\* 429 cooldown before the retry included, whichever PriceService instance
\* the calls go through.
C13_BulkFetchMutex ==
    Cardinality({c \in Callers : InFlight(c)}) <= 1

\* ------------------------------------------------------------------------
\* Properties of the snapshot tables (SpecRank)
\* ------------------------------------------------------------------------
RowsAt(table, d) == {r \in BagToSet(table) : r.date = d}

\* P: the most recent snapshot date of the table strictly before d, or Null
PrevSnapshotDate(table, d) ==
    LET ds == {r.date : r \in BagToSet(table)} \cap (1..(d - 1))
    IN  IF ds = {} THEN Null ELSE CHOOSE x \in ds : \A y \in ds : y <= x

\* the streak rule of one call, from the table before and the rows after
C14_Holds(table, after, top, d) ==
    \A P \in {PrevSnapshotDate(table, d)} :
      \A before \in {IF P = Null THEN {} ELSE RowsAt(table, P)} :
        \A i \in DOMAIN top :
          \A mine \in {{row \in after : row.ticker = top[i]}} :
            \A old \in {{r \in before : r.ticker = top[i]}} :
              /\ Cardinality(mine) = 1
              /\ \A row \in mine :
                    IF old # {}
                    THEN \A r \in old :
                            /\ row.streak = r.streak + 1
                            /\ row.streak_start = r.streak_start
                    ELSE row.streak = 1 /\ row.streak_start = d

\* C14: after extract_top_picks(cohort, run_date) each top-10 ticker has one
\* row for run_date; with P the latest snapshot date before run_date, a
\* ticker with a row in P has that row's streak + 1 and its streak_start, any
\* other ticker (or any ticker when there is no P) has streak 1 and
\* streak_start = run_date.
C14_StreakContinuity ==
    [][(last'.ranked # <<>> /\ <<snap, last>>' # <<snap, last>>) =>
        /\ C14_Holds(snap[last'.cohort], RowsAt(snap'[last'.cohort], last'.date),
                     Top10Of(last'.ranked), last'.date)
        /\ \A row \in RowsAt(snap'[last'.cohort], last'.date) :
              CopiesIn(row, snap'[last'.cohort]) = 1]_vars

\* C14 witness: a ticker on a streak of three since day 1 next to a ticker
\* that missed the previous snapshot and restarted at 1.
C14_Witness ==
    \E c \in RankCohorts :
        \E r1, r2 \in RowsAt(snap[c], MaxRankDay) :
            /\ r1.streak = 3 /\ r1.streak_start = 1
            /\ r2.streak = 1 /\ r2.streak_start = MaxRankDay
            /\ \E r0 \in RowsAt(snap[c], 1) : r0.ticker = r2.ticker
            /\ RowsAt(snap[c], 2) # {}

\* C15: every snapshot row has streak >= 1 and streak_start <= date; there is
\* at most one row per (cohort, ticker, date) and at most 10 per (cohort, date).
C15_SnapshotInvariant ==
    \A c \in RankCohorts :
        /\ \A r \in BagToSet(snap[c]) :
              /\ r.streak >= 1
              /\ r.streak_start <= r.date
              /\ CopiesIn(r, snap[c]) = 1
              /\ \A q \in BagToSet(snap[c]) :
                    (q.ticker = r.ticker /\ q.date = r.date) => q = r
        /\ \A d \in RankDays : Cardinality(RowsAt(snap[c], d)) <= TopTen

\* C15 witness: run dates out of order and repeated have left a date with the
\* full ten rows and a later date whose rows continue streaks.
C15_Witness ==
    \E c \in RankCohorts :
        /\ Cardinality(RowsAt(snap[c], 1)) = TopTen
        /\ \E r \in RowsAt(snap[c], 2) : r.streak = 2
        /\ \E r \in RowsAt(snap[c], 3) : r.streak = 2
        /\ last.again

\* C16: a second extract_top_picks for the same (cohort, run_date) with the
\* same ranked frame leaves every table as the first run left it.
C16_RerunIdempotent ==
    [][last'.again => snap' = snap]_vars

\* C16 witness: the rerun was for a date whose rows continue a streak.
C16_Witness ==
    /\ last.again
    /\ last.ranked # <<>>
    /\ \E r \in RowsAt(snap[last.cohort], last.date) : r.streak >= 2

\* ------------------------------------------------------------------------
\* Properties of calculate_ranks (SpecCalc)
\* ------------------------------------------------------------------------
AllFive(t) == \A l \in Labels : closes[t][l] # Null

\* the tickers whose return num/den is defined and above that of t
Above(t, num, den) ==
    {u \in Tickers :
        /\ closes[u][num] # Null /\ closes[u][den] # Null
        /\ closes[u][num] * closes[t][den] > closes[t][num] * closes[u][den]}

\* C17: the result of calculate_ranks holds exactly the tickers with all five
\* closes whose current rank is not below their last month's rank, each rank
\* being 1 + the number of tickers with a strictly higher return (ties share
\* the lowest ordinal); rank_change >= 0 in every row and the rows are in
\* falling order of current_return.
C17_RankFilter ==
    ranked_df.done =>
        /\ \A i \in DOMAIN ranked_df.rows :
              LET row == ranked_df.rows[i]
                  t == row.ticker
              IN  /\ row.current_rank =
                        1 + Cardinality(Above(t, "latest_trading", "minus_1_year"))
                  /\ row.last_month_rank =
                        1 + Cardinality(Above(t, "minus_1_month", "minus_13_months"))
                  /\ row.current_rank <= row.last_month_rank
                  /\ row.rank_change[1] >= 0
        /\ {ranked_df.rows[i].ticker : i \in DOMAIN ranked_df.rows} =
              {t \in Tickers :
                  /\ AllFive(t)
                  /\ Cardinality(Above(t, "latest_trading", "minus_1_year"))
                        <= Cardinality(Above(t, "minus_1_month", "minus_13_months"))}
        /\ \A i, j \in DOMAIN ranked_df.rows :
              i # j => ranked_df.rows[i].ticker # ranked_df.rows[j].ticker
        /\ \A i, j \in DOMAIN ranked_df.rows :
              i < j =>
                 ranked_df.rows[i].current_return[1] * ranked_df.rows[j].current_return[2]
                    >= ranked_df.rows[j].current_return[1] * ranked_df.rows[i].current_return[2]

\* C17 witness: two returned tickers tie for rank 1 and a third ticker with
\* all five closes was dropped because its rank got worse.
C17_Witness ==
    /\ ranked_df.done
    /\ Len(ranked_df.rows) = 2
    /\ ranked_df.rows[1].current_rank = 1 /\ ranked_df.rows[2].current_rank = 1
    /\ \E t \in Tickers :
          /\ AllFive(t)
          /\ \A i \in DOMAIN ranked_df.rows : ranked_df.rows[i].ticker # t

\* ------------------------------------------------------------------------
\* Properties of the cohort loop (Spec)
\* ------------------------------------------------------------------------
\* step 4 has an empty top_10 for the cohort at hand
EmptyRanking == pc = "signal" /\ current = {}

\* the loop of build_report goes on to the cohort after ci
NextCohort == pc' = "rank" /\ ci' = ci + 1 /\ runDate' = runDate

\* C18: when the ranking of a cohort is empty, the cohorts after it are still
\* ranked and signal-processed in the same run.
C18_CohortIsolation ==
    [][(EmptyRanking /\ ci < Len(COHORTS)) => NextCohort]_vars

\* C19: an empty ranking makes the run skip the cohort: no Position is opened
\* or closed, no OptionLeg changes, and the run goes on after the cohort (to
\* the next cohort, or to its end after the last one).
C19_EmptyRankingSkips ==
    [][EmptyRanking =>
        /\ stock' = stock
        /\ opts' = opts
        /\ IF ci < Len(COHORTS) THEN NextCohort ELSE pc' = "idle"]_vars

\* ------------------------------------------------------------------------
\* Properties of find_best_contract (SpecPick)
\* ------------------------------------------------------------------------
\* |expiration - target_expiration| in days
DateDiff(c) == Abs(c.expiration_date - (query.today + TargetDays(query.strategy_type)))

\* |strike - target_strike| / target_strike * 100, times target_strike
StrikeDiff(c) ==
    Abs(100 * c.strike_price - query.stock_price * StrikePct(query.strategy_type))

\* a scores no more than b: date_diff + 5 * strike_diff_pct, both sides
\* multiplied by 100 * target_strike
ScoresAtMost(a, b) ==
    LET ts == query.stock_price * StrikePct(query.strategy_type)
    IN  DateDiff(a) * ts + 500 * StrikeDiff(a) <= DateDiff(b) * ts + 500 * StrikeDiff(b)

\* C20: for a non-empty candidate list find_best_contract returns one of the
\* candidates, and no candidate of the response has a lower score.
C20_MinimumScore ==
    (best_c.done /\ query.candidates # <<>>) =>
        /\ \E i \in DOMAIN query.candidates : query.candidates[i] = best_c.contract
        /\ \A i \in DOMAIN query.candidates :
              ScoresAtMost(best_c.contract, query.candidates[i])

\* C20 witness: a candidate 50 days off with the exact target strike (score
\* 50) lost to a candidate 5 days and 2 % off (score 15), which was taken
\* before another candidate of score 15.
C20_Witness ==
    /\ best_c.done
    /\ Len(query.candidates) = MaxCands
    /\ \E i \in DOMAIN query.candidates :
          /\ DateDiff(query.candidates[i]) = 50
          /\ StrikeDiff(query.candidates[i]) = 0
    /\ DateDiff(best_c.contract) = 5
    /\ StrikeDiff(best_c.contract) * 100 =
          2 * query.stock_price * StrikePct(query.strategy_type)
    /\ \E i \in DOMAIN query.candidates :
          /\ DateDiff(query.candidates[i]) = 15
          /\ StrikeDiff(query.candidates[i]) = 0

\* the responses holding the candidates of cands in another order
Reorderings(cands) ==
    {[i \in DOMAIN cands |-> cands[p[i]]] : p \in Permutations(DOMAIN cands)}

\* C21: the contract chosen depends only on the set of candidates: every
\* response holding the same candidates in another order selects the contract
\* that was returned.
C21_OrderIndependent ==
    (best_c.done /\ query.candidates # <<>>) =>
        \A other \in Reorderings(query.candidates) :
            SelectFrom(other, query, 1, FALSE, 0, NoContract) = best_c.contract

\* ------------------------------------------------------------------------
\* Properties of the option resolution (SpecLeg)
\* ------------------------------------------------------------------------
\* the weekdays after d inside the scan window on which the contract has a bar
LaterBars(d) ==
    {x \in legBars : d < x /\ x <= d + ScanDays /\ ~IsWeekend(x)}

\* C22: after a run, a leg whose contract has no bar on the Position's
\* buy_date (sell_date) but has one on a later weekday of the scan window
\* has its entry_price (exit_price) filled from such a later bar.
C22_OptionForwardScan ==
    legRuns >= 1 =>
        \A j \in DOMAIN legOp :
            LET pos == legSt[1]
                sym == legOp[j].option_symbol
            IN  /\ (pos.buy_date \notin legBars /\ LaterBars(pos.buy_date) # {}) =>
                      \E x \in LaterBars(pos.buy_date) :
                          legOp[j].entry_price = OptClose(sym, x)
                /\ (pos.sell_date # Null /\ pos.sell_date \notin legBars
                        /\ LaterBars(pos.sell_date) # {}) =>
                      \E x \in LaterBars(pos.sell_date) :
                          legOp[j].exit_price = OptClose(sym, x)

\* ------------------------------------------------------------------------
\* Properties of the stock resolution (SpecFill)
\* ------------------------------------------------------------------------
\* the earliest day after base, within ScanDays of it and after the day
\* `after`, whose bars are in avail; Null when there is none
EarliestBar(base, after, avail) ==
    LET S == {d \in avail : base < d /\ d <= base + ScanDays /\ d > after}
    IN  IF S = {} THEN Null ELSE CHOOSE d \in S : \A e \in S : d <= e

\* a run has just filled the buy (sell) price of row i
BuyFilled(i) == fillSt[i].buy_price = Null /\ fillSt'[i].buy_price # Null

SellFilled(i) == fillSt[i].sell_price = Null /\ fillSt'[i].sell_price # Null

\* the buy fields of row i are those of day d, the sell fields those of day d
BoughtOn(row, d) ==
    /\ row.buy_date = d /\ ~IsWeekend(d)
    /\ row.buy_price = High(row.ticker, d)
    /\ row.spy_buy_price = SpyHigh(d)

SoldOn(row, d) ==
    /\ row.sell_date = d /\ ~IsWeekend(d)
    /\ row.sell_price = Low(row.ticker, d)
    /\ row.spy_sell_price = SpyLow(d)

\* C23, as stated: a buy is filled from the earliest day after signal_date,
\* within 5 days, that has bars, with the highs; a sell from the earliest day
\* after drop_date, within 5 days, that has bars, with the lows.
C23_StockFillRule ==
    [][\A i \in DOMAIN fillSt :
          /\ BuyFilled(i) =>
                BoughtOn(fillSt'[i], EarliestBar(fillSt[i].signal_date, Null, fillBars'))
          /\ SellFilled(i) =>
                SoldOn(fillSt'[i], EarliestBar(fillSt[i].drop_date, Null, fillBars'))]_vars

\* C23, amended: the sell is filled from the earliest day with bars after
\* drop_date, within 5 days, that is also after the resolved buy_date.
C23_StockFillRuleAmended ==
    [][\A i \in DOMAIN fillSt :
          /\ BuyFilled(i) =>
                BoughtOn(fillSt'[i], EarliestBar(fillSt[i].signal_date, Null, fillBars'))
          /\ SellFilled(i) =>
                SoldOn(fillSt'[i], EarliestBar(fillSt[i].drop_date,
                                               fillSt'[i].buy_date, fillBars'))]_vars

\* C23 witness: a buy on the Monday after a Thursday signal (Friday had no
\* bars, the weekend was passed over) and a sell that had to pass over the buy
\* day, which is after the drop date and has bars.
C23_Witness ==
    \E i \in DOMAIN fillSt :
        /\ fillSt[i].signal_date = SignalDay
        /\ BoughtOn(fillSt[i], SignalDay + 4)
        /\ fillSt[i].drop_date # Null
        /\ fillSt[i].drop_date < fillSt[i].buy_date
        /\ fillSt[i].sell_date # Null
        /\ SoldOn(fillSt[i], SignalDay + 5)

\* ------------------------------------------------------------------------
\* Properties of the reference price (SpecRef)
\* ------------------------------------------------------------------------
\* C24: the price passed to find_best_contract is the ticker's close on the
\* latest_trading date of the run, whatever older snapshot dates the price
\* rows also hold.
C24_ReferenceIsLatestClose ==
    refPrice # Null =>
        \A i \in DOMAIN refRows :
            refRows[i].date = "latest_trading" => refPrice = refRows[i].close

\* ------------------------------------------------------------------------
\* Properties of one process_signals call (SpecSignal)
\* ------------------------------------------------------------------------
\* the legs the call appended for the trade_id of a row
NewLegsOf(row) ==
    {k \in (Len(bfIn.op) + 1)..Len(bfOut.op) : bfOut.op[k].trade_id = row.trade_id}

\* the call made a selection attempt for the row: with every contract found,
\* it appended one leg per strategy
Attempted(row) ==
    {bfOut.op[k].strategy : k \in NewLegsOf(row)} = StrategySet

\* the row was an OPEN Position of the cohort without any leg
OpenWithoutLegs(row) ==
    /\ row.cohort = COHORTS[1]
    /\ IsOpen(row)
    /\ LegsOf(bfIn.op, row.trade_id) = {}

\* C25, as stated: every Position of the cohort that was OPEN without legs
\* gets a selection attempt; a Position with a leg, or CLOSED, gets none.
C25_LegBackfill ==
    bfOut.done =>
        \A i \in DOMAIN bfIn.st :
            IF OpenWithoutLegs(bfIn.st[i])
            THEN Attempted(bfIn.st[i])
            ELSE NewLegsOf(bfIn.st[i]) = {}

\* C25, amended: the attempt is made exactly when, besides, a reference
\* price exists: the ticker has a price in the snapshot or the Position has
\* a recorded buy_price.
C25_LegBackfillAmended ==
    bfOut.done =>
        \A i \in DOMAIN bfIn.st :
            IF /\ OpenWithoutLegs(bfIn.st[i])
               /\ (bfIn.st[i].ticker \in bfIn.priced \/ bfIn.st[i].buy_price # Null)
            THEN Attempted(bfIn.st[i])
            ELSE NewLegsOf(bfIn.st[i]) = {}

\* C25 witness: a Position without snapshot price was backfilled on its
\* buy_price, while a CLOSED Position without legs was left alone.
C25_Witness ==
    /\ bfOut.done
    /\ \E i, j \in DOMAIN bfIn.st :
          /\ OpenWithoutLegs(bfIn.st[i])
          /\ bfIn.st[i].ticker \notin bfIn.priced
          /\ Attempted(bfIn.st[i])
          /\ IsClosed(bfIn.st[j])
          /\ bfIn.st[j].cohort = COHORTS[1]
          /\ LegsOf(bfIn.op, bfIn.st[j].trade_id) = {}
          /\ NewLegsOf(bfIn.st[j]) = {}

\* ------------------------------------------------------------------------
\* Leg prices and stock resolution (Spec)
\* ------------------------------------------------------------------------
\* the Positions a leg belongs to: those carrying its trade_id
OwnersOf(leg) == {i \in DOMAIN stock : stock[i].trade_id = leg.trade_id}

\* a leg price is filled only after the date of its Position is resolved
LegsFollowStock ==
    \A k \in DOMAIN opts : \A i \in OwnersOf(opts[k]) :
        /\ opts[k].entry_price # Null => stock[i].buy_date # Null
        /\ opts[k].exit_price # Null => stock[i].sell_date # Null

\* a step that opens Positions or appends legs leaves their prices null,
\* and fills no price of any older row: prices are filled by
\* resolve_prices only, which a run takes before its signal steps
OpensUnresolved ==
    pc = "signal" =>
        /\ \A i \in (Len(stock) + 1)..Len(stock') : stock'[i].buy_price = Null
        /\ \A k \in (Len(opts) + 1)..Len(opts') : opts'[k].entry_price = Null
        /\ \A i \in DOMAIN stock : stock'[i].buy_price = stock[i].buy_price
        /\ \A k \in DOMAIN opts : opts'[k].entry_price = opts[k].entry_price

\* C26: a leg's entry_price is never filled while its Position's buy_date
\* is unresolved, nor its exit_price while sell_date is unresolved; price
\* resolution comes before signal processing, so a Position opened in a run
\* and its legs end the run with null buy_price and entry_price.
C26_LegsFollowStock == [][OpensUnresolved /\ LegsFollowStock']_vars

\* ------------------------------------------------------------------------
\* The cohort's OPEN set after process_signals (SpecSignal)
\* ------------------------------------------------------------------------
OpenTickersAfter(c) ==
    {bfOut.st[i].ticker : i \in {j \in DOMAIN bfOut.st :
                                    bfOut.st[j].cohort = c /\ IsOpen(bfOut.st[j])}}

FirstFive(t10) == {t10[i] : i \in {j \in DOMAIN t10 : j <= TopN}}

\* C27: after process_signals(cohort) with a non-empty top-10 the cohort's
\* OPEN tickers are exactly the first five tickers of the top-10 (so at
\* most five), and no Position of another cohort is created or changed.
C27_OpenSetIsTopFive ==
    bfOut.done =>
        /\ OpenTickersAfter(COHORTS[1]) = FirstFive(bfIn.top10)
        /\ Cardinality(OpenTickersAfter(COHORTS[1])) <= TopN
        /\ \A i \in DOMAIN bfIn.st :
              bfIn.st[i].cohort # COHORTS[1] => bfOut.st[i] = bfIn.st[i]
        /\ \A i \in (Len(bfIn.st) + 1)..Len(bfOut.st) :
              bfOut.st[i].cohort = COHORTS[1]

\* C27 witness: a six-ticker top-10 opened five Positions and dropped the
\* cohort's Position of A, next to an untouched OPEN Position of the other
\* cohort whose ticker is not among the five.
C27_Witness ==
    /\ bfOut.done
    /\ Len(bfIn.top10) > TopN
    /\ Len(bfOut.st) = Len(bfIn.st) + TopN
    /\ bfIn.st[1].cohort = COHORTS[1] /\ IsOpen(bfIn.st[1]) /\ IsClosed(bfOut.st[1])
    /\ bfIn.st[2].cohort = COHORTS[2] /\ IsOpen(bfOut.st[2])
    /\ bfOut.st[2] = bfIn.st[2]

\* ------------------------------------------------------------------------
\* Cohort membership of the ranked tickers (SpecCohort)
\* ------------------------------------------------------------------------
\* C28: every ticker of the cohort's saved top-10, and so every ticker a
\* Position is opened for, is on the cohort's ticker list; the benchmark
\* that get_snapshots adds to the price rows is never ranked into it.
C28_TopTenInCohort ==
    top_10.done =>
        /\ Range(top_10.tickers) \subseteq CohortTickers(RankedCohort)
        /\ top_10.opened \subseteq CohortTickers(RankedCohort)
        /\ "VOO" \notin Range(top_10.tickers)

\* ------------------------------------------------------------------------
\* Caching of fetched dates (SpecEnsure)
\* ------------------------------------------------------------------------
\* the call of c returned date d after a non-empty bulk fetch for d
ReturnedFetched(c, d) ==
    /\ call[c].pc = "returned"
    /\ call[c].result = d
    /\ \E k \in DOMAIN call[c].log :
          call[c].log[k] = <<d, "fetched">>

\* C29: once ensure_date_data has returned d after a non-empty bulk fetch,
\* the completeness check for d holds, so that a later call starting at d
\* returns it from the store without another bulk fetch, whatever the
\* number of whitelisted rows saved.
C29_FetchedStaysCached ==
    \A c \in Callers : \A d \in Days :
        ReturnedFetched(c, d) => IsDateInDb(db, d)

\* ------------------------------------------------------------------------
\* Liveness of the buy resolution (SpecFillFair)
\* ------------------------------------------------------------------------
\* upstream bars exist on a weekday of signal_date + 1 .. signal_date + 5
BuyWindowHasBars == fillUp \cap ((SignalDay + 1)..(SignalDay + ScanDays)) # {}

====
